---- MODULE Spec2Model ----
(***************************************************************************)
(* Hybrid recommendation service: the candidate generators, the candidate  *)
(* pool builder, the cold-start handler, the reranker and the service that *)
(* orchestrates them (src/src/service.py, src/src/models/*.py).            *)
(*                                                                         *)
(* Python lists and numpy arrays are sequences (1-based here, 0-based in   *)
(* the source: NpGet does the index conversion, negative indices           *)
(* included).  Python sets are sets.  Optional values are None or Some(x). *)
(***************************************************************************)
EXTENDS Integers, Sequences, FiniteSets, TLC

(***************************************************************************)
(* Bounds of the model.                                                    *)
(***************************************************************************)
\* users 0 .. NumUsers-1 have a row in the per-user tables
NumUsers == 2
\* items 0 .. NumItems-1 make up the small catalogue
NumItems == 2

\* request threads running get_recommendations at the same time
NumThreads == 2
\* largest limit handed to a generator called directly
MaxLimit == 3
\* longest list of registered candidate generators
MaxGenerators == 2
\* longest candidate list handed to the reranker directly
MaxCandidates == 3
\* request sizes 1 .. MaxK are tried one by one (larger ones are sampled)
MaxK == 12

(***************************************************************************)
(* Program constants.                                                      *)
(***************************************************************************)
max_candidates_cf == 300
max_candidates_als == 100
max_candidates_tt == 200
max_candidates_pop == 600
final_candidate_pool == 1000
max_recommendations == 100

(***************************************************************************)
(* Python and numpy idioms.                                                *)
(***************************************************************************)
None == <<>>
Some(x) == <<x>>
Val(o) == o[1]

Min(a, b) == IF a < b THEN a ELSE b
Max(a, b) == IF a > b THEN a ELSE b

\* arr[i] of a numpy array: raises IndexError outside -len .. len-1,
\* and a negative index counts from the end.
NpInRange(arr, i) == -Len(arr) <= i /\ i < Len(arr)
NpGet(arr, i) == arr[IF i < 0 THEN Len(arr) + i + 1 ELSE i + 1]

\* lst[:k] of a Python list (k < 0 drops the last -k elements).
Take(lst, k) ==
    IF k >= 0 THEN SubSeq(lst, 1, Min(k, Len(lst)))
    ELSE SubSeq(lst, 1, Max(0, Len(lst) + k))

\* `for i in 1..n: st = Body(st, i); if st.brk: break`.  The iterations run
\* in blocks of 32, which keeps the evaluation stack shallow on the
\* 1000-item lists; the result is that of the plain loop.
RECURSIVE ForRange(_, _, _, _)
ForRange(Body(_, _), lo, hi, st) ==
    IF lo > hi \/ st.brk THEN st ELSE ForRange(Body, lo + 1, hi, Body(st, lo))

RECURSIVE ForFrom(_, _, _, _)
ForFrom(Body(_, _), lo, n, st) ==
    IF lo > n \/ st.brk THEN st
    ELSE ForFrom(Body, lo + 32, n, ForRange(Body, lo, Min(lo + 31, n), st))

For(Body(_, _), n, st) == ForFrom(Body, 1, n, st)

\* the outcome of a call: a returned value, or the exception it raised
Returned(v) == [raised |-> "", value |-> v]
Raised(e) == [raised |-> e, value |-> <<>>]

Range(s) == {s[i] : i \in DOMAIN s}
NoDuplicates(s) == Cardinality(Range(s)) = Len(s)

(***************************************************************************)
(* State.                                                                  *)
(***************************************************************************)
VARIABLES
    registry,            \* ModelRegistry: _models, _candidate_generators, _reranker, _cold_start_handler
    loaded,              \* the _loaded flag of each component object
    last_clicks,         \* RecommendationService._last_clicks (Optional)
    cf_last_clicks,      \* ItemToItemCF._last_clicks
    similarity_matrix,   \* ItemToItemCF._similarity_matrix, one row per seed item
    als_recommendations, \* ALSRecommender._user_recommendations, one row per user
    tt_recommendations,  \* TwoTowerRecommender._user_recommendations, one row per user
    popularity_list,     \* PopularityRecommender._popularity_list
    popularity_tables,   \* ContextualPopularity._popularity_tables
    global_fallback,     \* ContextualPopularity._global_fallback (Optional)
    scorer,              \* LightGBMReranker._model, the trained booster
    user_embeddings,     \* LightGBMReranker._user_embeddings, one vector per user
    item_embeddings,     \* LightGBMReranker._item_embeddings, one vector per item
    ground_truth,        \* RecommendationService._ground_truth, user -> item
    call,                \* the operation invoked last, with its arguments
    result               \* what that operation returned

tables == <<registry, loaded, last_clicks, cf_last_clicks, similarity_matrix,
            als_recommendations, tt_recommendations, popularity_list,
            popularity_tables, global_fallback, scorer, user_embeddings,
            item_embeddings, ground_truth>>

vars == <<tables, call, result>>

Components == {"ItemToItemCF", "ALS", "TwoTower", "Popularity",
               "LightGBMReranker", "ContextualPopularity"}

\* ModelRegistry.__init__ and the component constructors
Init ==
    /\ registry = [models |-> {}, candidate_generators |-> <<>>,
                   reranker |-> FALSE, cold_start_handler |-> FALSE]
    /\ loaded = [c \in Components |-> FALSE]
    /\ last_clicks = None
    /\ cf_last_clicks = <<>>
    /\ similarity_matrix = <<>>
    /\ als_recommendations = <<>>
    /\ tt_recommendations = <<>>
    /\ popularity_list = <<>>
    /\ popularity_tables = <<>>
    /\ global_fallback = None
    /\ scorer = None
    /\ user_embeddings = <<>>
    /\ item_embeddings = <<>>
    /\ ground_truth = <<>>
    /\ call = [op |-> "__init__"]
    /\ result = [op |-> "__init__"]

(***************************************************************************)
(* Candidate generators (models/collaborative_filtering.py, popularity.py) *)
(***************************************************************************)
\* The loop the four generators share:
\*   for item_id in row: if item_id not in seen_items: candidates.append(item_id)
\*                       if len(candidates) >= k: break
\* A float table can hold entries that `int(item_id)` rejects: nan raises
\* ValueError and inf raises OverflowError.  The codes -3 and -4 stand for
\* them among the item IDs, which are never negative.
NotANumber == -3
Infinity == -4

FilterBody(row, seen_items, k, st, i) ==
    IF row[i] = NotANumber THEN [st EXCEPT !.raised = "ValueError", !.brk = TRUE]
    ELSE IF row[i] = Infinity THEN [st EXCEPT !.raised = "OverflowError", !.brk = TRUE]
    ELSE LET candidates == IF row[i] \notin seen_items
                           THEN Append(st.candidates, row[i])
                           ELSE st.candidates
         IN  [candidates |-> candidates, brk |-> Len(candidates) >= k, raised |-> ""]

\* the list the loop returns, or the exception that left it
FilterOutcome(st) == IF st.raised = "" THEN Returned(st.candidates) ELSE Raised(st.raised)

FilterRow(row, seen_items, k) ==
    FilterOutcome(For(LAMBDA st, i : FilterBody(row, seen_items, k, st, i), Len(row),
                      [candidates |-> <<>>, brk |-> FALSE, raised |-> ""]))

\* `except (IndexError, ValueError): return []` of the CF, ALS and Two-Tower
\* generators; any other exception leaves the generator
CaughtByGenerator(out) ==
    IF out.raised \in {"IndexError", "ValueError"} THEN Returned(<<>>) ELSE out

\* the try block of ItemToItemCF.generate_candidates
CF_lookup(user_id, seen_items, k) ==
    IF ~NpInRange(cf_last_clicks, user_id) THEN Raised("IndexError")
    ELSE IF NpGet(cf_last_clicks, user_id) = -1 THEN Returned(<<>>)
    ELSE IF ~NpInRange(similarity_matrix, NpGet(cf_last_clicks, user_id))
    THEN Raised("IndexError")
    ELSE FilterRow(NpGet(similarity_matrix, NpGet(cf_last_clicks, user_id)), seen_items, k)

CF_generate_candidates(user_id, seen_items, k) ==
    IF ~loaded["ItemToItemCF"] THEN Returned(<<>>)
    ELSE CaughtByGenerator(CF_lookup(user_id, seen_items, k))

\* the try block of ALSRecommender and TwoTowerRecommender.generate_candidates
UserRow_lookup(table, user_id, seen_items, k) ==
    IF ~NpInRange(table, user_id) THEN Raised("IndexError")
    ELSE FilterRow(NpGet(table, user_id), seen_items, k)

ALS_generate_candidates(user_id, seen_items, k) ==
    IF ~loaded["ALS"] THEN Returned(<<>>)
    ELSE CaughtByGenerator(UserRow_lookup(als_recommendations, user_id, seen_items, k))

TT_generate_candidates(user_id, seen_items, k) ==
    IF ~loaded["TwoTower"] THEN Returned(<<>>)
    ELSE CaughtByGenerator(UserRow_lookup(tt_recommendations, user_id, seen_items, k))

\* PopularityRecommender.generate_candidates has no try block
Pop_generate_candidates(user_id, seen_items, k) ==
    IF ~loaded["Popularity"] THEN Returned(<<>>)
    ELSE FilterRow(popularity_list, seen_items, k)

\* generator.generate_candidates(...), dispatched on the generator's class
generate_candidates(class, user_id, seen_items, k) ==
    CASE class = "ItemToItemCF" -> CF_generate_candidates(user_id, seen_items, k)
      [] class = "ALSRecommender" -> ALS_generate_candidates(user_id, seen_items, k)
      [] class = "TwoTowerRecommender" -> TT_generate_candidates(user_id, seen_items, k)
      [] class = "PopularityRecommender" -> Pop_generate_candidates(user_id, seen_items, k)

(***************************************************************************)
(* Candidate pool builder (service.py, _generate_candidate_pool)           *)
(***************************************************************************)
algorithm_limits ==
    [ItemToItemCF |-> max_candidates_cf, ALS |-> max_candidates_als,
     Popularity |-> max_candidates_pop, TwoTower |-> max_candidates_tt]

pool_limits ==
    [ItemToItemCF |-> 300, ALS |-> 400, Popularity |-> 600, TwoTower |-> 800]

AlgoName(class) ==
    CASE class = "ItemToItemCF" -> "ItemToItemCF"
      [] class = "ALSRecommender" -> "ALS"
      [] class = "PopularityRecommender" -> "Popularity"
      [] class = "TwoTowerRecommender" -> "TwoTower"
      [] OTHER -> class

\* PoolAdd without the membership test
PoolAdd_unconditional(st, item_id) ==
    [st EXCEPT !.seen = @ \cup {item_id}, !.candidates = Append(@, item_id)]

\* PoolAdd putting the new item in front of the pool
PoolAdd_prepend(st, item_id) ==
    IF item_id \notin st.seen
    THEN [st EXCEPT !.seen = @ \cup {item_id}, !.candidates = <<item_id>> \o @]
    ELSE st

\* `if item_id not in seen: seen.add(item_id); candidates.append(item_id)`
PoolAdd(st, item_id) ==
    IF item_id \notin st.seen
    THEN [st EXCEPT !.seen = @ \cup {item_id}, !.candidates = Append(@, item_id)]
    ELSE st

\* one iteration of `for item_id in algo_candidates`
MergeBody(algo_candidates, limit, st, i) ==
    LET st2 == PoolAdd(st, algo_candidates[i])
    IN  [st2 EXCEPT !.brk = Len(st2.candidates) >= limit]

\* `for item_id in algo_candidates: ...; if len(candidates) >= pool_limits[...]: break`
Merge(algo_candidates, limit, st) ==
    For(LAMBDA s, i : MergeBody(algo_candidates, limit, s, i), Len(algo_candidates),
        [st EXCEPT !.brk = FALSE])

\* `if len(candidates) >= final_candidate_pool: break`, and the record of
\* the generator's output and of the pool positions it filled
EndOfStage(algo_name, st, algo_candidates, merged) ==
    [candidates |-> merged.candidates,
     seen |-> merged.seen,
     stages |-> Append(st.stages,
                       [algo |-> algo_name,
                        raised |-> "",
                        output |-> algo_candidates,
                        first |-> Len(st.candidates) + 1,
                        last |-> Len(merged.candidates)]),
     brk |-> Len(merged.candidates) >= final_candidate_pool]

\* the except branch leaving the generator loop instead of continuing it
FailedStage_break(algo_name, st, e) ==
    [st EXCEPT !.brk = TRUE,
               !.stages = Append(@, [algo |-> algo_name, raised |-> e, output |-> <<>>,
                                     first |-> Len(st.candidates) + 1,
                                     last |-> Len(st.candidates)])]

\* `except Exception: logger.warning(...); continue`
FailedStage(algo_name, st, e) ==
    [st EXCEPT !.brk = FALSE,
               !.stages = Append(@, [algo |-> algo_name, raised |-> e, output |-> <<>>,
                                     first |-> Len(st.candidates) + 1,
                                     last |-> Len(st.candidates)])]

\* the try/except around one generator, given the outcome of its
\* generate_candidates call
RunStage(algo_name, st, out) ==
    IF out.raised # "" THEN FailedStage(algo_name, st, out.raised)
    ELSE EndOfStage(algo_name, st, out.value,
                    Merge(out.value, pool_limits[algo_name], st))

\* one iteration of `for generator in generators`; `stages` records, for
\* each generator that ran, the pool positions it filled (first .. last)
GeneratorBody(generators, user_id, st, g) ==
    LET algo_name == AlgoName(generators[g])
    IN  IF algo_name \notin DOMAIN algorithm_limits THEN st
        ELSE RunStage(algo_name, st,
                      generate_candidates(generators[g], user_id, st.seen,
                                          algorithm_limits[algo_name]))

generate_candidate_pool(user_id) ==
    LET generators == registry.candidate_generators
    IN  For(LAMBDA st, g : GeneratorBody(generators, user_id, st, g), Len(generators),
            [candidates |-> <<>>, seen |-> {}, stages |-> <<>>, brk |-> FALSE])

(***************************************************************************)
(* The deployed pipeline (deployment/azure_functions/HttpReco), which      *)
(* reads the same artifact files                                           *)
(***************************************************************************)
\* `if it not in seen: seen.add(int(it)); cand.append(int(it))`; int() of a
\* nan or an inf raises
get_candidates_add(st, it) ==
    IF it \in st.seen THEN st
    ELSE IF it = NotANumber THEN [st EXCEPT !.raised = "ValueError", !.brk = TRUE]
    ELSE IF it = Infinity THEN [st EXCEPT !.raised = "OverflowError", !.brk = TRUE]
    ELSE [st EXCEPT !.seen = @ \cup {it}, !.cand = Append(@, it)]

\* `for it in row: <add>; if len(cand) == limit: break`
get_candidates_stage(row, limit, st) ==
    IF st.raised # "" THEN st
    ELSE LET Body(s, i) ==
                 LET s2 == get_candidates_add(s, row[i])
                 IN  IF s2.raised # "" THEN s2
                     ELSE [s2 EXCEPT !.brk = Len(s2.cand) = limit]
             done == For(Body, Len(row), [st EXCEPT !.brk = FALSE])
         IN  [done EXCEPT !.brk = FALSE]

\* `for it in pop_list: if len(cand) == 1000: break; <add>`
get_candidates_fill(row, st) ==
    IF st.raised # "" THEN st
    ELSE LET Body(s, i) ==
                 IF Len(s.cand) = 1000 THEN [s EXCEPT !.brk = TRUE]
                 ELSE get_candidates_add(s, row[i])
             done == For(Body, Len(row), [st EXCEPT !.brk = FALSE])
         IN  [done EXCEPT !.brk = FALSE]

\* get_candidates(u): CF on the last click, ALS, popularity, Two-Tower and
\* popularity again
get_candidates(u) ==
    IF ~NpInRange(cf_last_clicks, u) THEN Raised("IndexError")
    ELSE
    LET last == NpGet(cf_last_clicks, u)
        start == [cand |-> <<>>, seen |-> {}, raised |-> "", brk |-> FALSE]
    IN  IF last # -1 /\ ~NpInRange(similarity_matrix, last) THEN Raised("IndexError")
        ELSE IF ~NpInRange(als_recommendations, u) \/ ~NpInRange(tt_recommendations, u)
        THEN Raised("IndexError")
        ELSE
        LET cf == IF last # -1
                  THEN get_candidates_stage(NpGet(similarity_matrix, last), 300, start)
                  ELSE start
            als == get_candidates_stage(NpGet(als_recommendations, u), 400, cf)
            pop == get_candidates_stage(popularity_list, 600, als)
            tt == get_candidates_stage(NpGet(tt_recommendations, u), 800, pop)
            filled == get_candidates_fill(popularity_list, tt)
        IN  IF filled.raised # "" THEN Raised(filled.raised) ELSE Returned(filled.cand)

(***************************************************************************)
(* Cold-start handler (models/popularity.py, ContextualPopularity)         *)
(***************************************************************************)
\* dict.get(key): None when the key is absent
DictGet(dict, key) == IF key \in DOMAIN dict THEN Some(dict[key]) ELSE None
DictGetOr(dict, key, default) == IF key \in DOMAIN dict THEN dict[key] ELSE default

\* str(country).upper() on the country codes of the model
Upper(country) ==
    CASE country = "us" -> "US"
      [] country = "zz" -> "ZZ"
      [] OTHER -> country

\* device_regional as max(1, k * 3 // 10), the other quotas unchanged
calculate_allocation_regional_rounded(k) ==
    [os_global |-> Max(1, (k * 2) \div 10),
     device_global |-> Max(1, (k * 2) \div 10),
     os_regional |-> Max(1, (k * 3) \div 10),
     device_regional |-> Max(1, (k * 3) \div 10)]

calculate_allocation(k) ==
    [os_global |-> Max(1, (k * 2) \div 10),
     device_global |-> Max(1, (k * 2) \div 10),
     os_regional |-> Max(1, (k * 3) \div 10),
     device_regional |-> k - Max(1, (k * 2) \div 10) * 2 - Max(1, (k * 3) \div 10)]

\* ExtendBody appending whether or not the item was seen
ExtendBody_unconditional(items, n, st, i) ==
    LET recommendations == Append(st.recommendations, items[i])
    IN  [recommendations |-> recommendations,
         seen |-> st.seen \cup {items[i]},
         added |-> st.added + 1,
         brk |-> st.added + 1 = n \/ Len(recommendations) >= 100,
         raised |-> ""]

\* ExtendBody leaving the loop one item early
ExtendBody_early_break(items, n, st, i) ==
    IF items[i] \notin st.seen
    THEN LET recommendations == Append(st.recommendations, items[i])
         IN  [recommendations |-> recommendations,
              seen |-> st.seen \cup {items[i]},
              added |-> st.added + 1,
              brk |-> st.added + 1 >= n - 1 \/ Len(recommendations) >= 100,
              raised |-> ""]
    ELSE st

\* one iteration of `for item in items` in _extend_from_table; `int(item)`
\* raises on a nan or inf entry
ExtendBody(items, n, st, i) ==
    IF items[i] = NotANumber THEN [st EXCEPT !.raised = "ValueError", !.brk = TRUE]
    ELSE IF items[i] = Infinity THEN [st EXCEPT !.raised = "OverflowError", !.brk = TRUE]
    ELSE IF items[i] \notin st.seen
    THEN LET recommendations == Append(st.recommendations, items[i])
         IN  [recommendations |-> recommendations,
              seen |-> st.seen \cup {items[i]},
              added |-> st.added + 1,
              brk |-> st.added + 1 = n \/ Len(recommendations) >= 100,
              raised |-> ""]
    ELSE st

\* _extend_from_table(items, n, recommendations, seen); st holds the two
\* lists the call updates in place, the loop's `added` and break flag, and
\* the exception, if any, that ended get_recommendations before this call
extend_from_table(items, n, st) ==
    IF st.raised # "" THEN st
    ELSE IF items = None \/ n <= 0 THEN st
    ELSE For(LAMBDA s, i : ExtendBody(Val(items), n, s, i), Len(Val(items)),
             [st EXCEPT !.added = 0, !.brk = FALSE])

extend_from_context(table_name, key, n, st) ==
    IF table_name \notin DOMAIN popularity_tables THEN st
    ELSE extend_from_table(DictGet(popularity_tables[table_name], key), n, st)

\* a regional step that takes whatever its list holds, beyond its quota
extend_from_regional_unbounded(table_name, key, n, st) ==
    IF table_name \notin DOMAIN popularity_tables THEN st
    ELSE extend_from_table(DictGet(popularity_tables[table_name], key),
                           max_recommendations, st)

\* `if "by_os_reg" in self._popularity_tables: ...` and its by_dev_reg twin
extend_from_regional(table_name, key, n, st) ==
    IF table_name \notin DOMAIN popularity_tables THEN st
    ELSE extend_from_table(DictGet(popularity_tables[table_name], key), n, st)

\* `if len(recommendations) < k and self._global_fallback is not None: ...`
extend_from_global(k, st) ==
    IF Len(st.recommendations) < k /\ global_fallback # None
    THEN extend_from_table(global_fallback, k - Len(st.recommendations), st)
    ELSE st

\* `return recommendations[:k]`, unless a step raised
FillOutcome(k, st) ==
    IF st.raised # "" THEN Raised(st.raised) ELSE Returned(Take(st.recommendations, k))

\* the four quota steps and the global fill, each updating the lists of the
\* step before it, then recommendations[:k]
fill_recommendations(device, os, country, allocation, k) ==
    FillOutcome(k, extend_from_global(k,
           extend_from_regional("by_dev_reg", <<device, country>>, allocation.device_regional,
             extend_from_regional("by_os_reg", <<os, country>>, allocation.os_regional,
               extend_from_context("by_dev", device, allocation.device_global,
                 extend_from_context("by_os", os, allocation.os_global,
                   [recommendations |-> <<>>, seen |-> {}, added |-> 0,
                    brk |-> FALSE, raised |-> ""]))))))

\* ContextualPopularity.get_recommendations(context, k) once loaded
contextual_recommendations(context, k) ==
    fill_recommendations(DictGetOr(context, "device", -1),
                         DictGetOr(context, "os", -1),
                         Upper(DictGetOr(context, "country", "")),
                         calculate_allocation(k), k)

\* a context value that is a JSON array reaches Python as a list, which no
\* dict lookup accepts as a key (nor a tuple holding it); the code -2 stands
\* for such a value among the integer device and OS codes
Unhashable == -2

\* whether one of the `.get(key)` lookups raises TypeError
lookup_raises(context) ==
    \/ /\ DictGetOr(context, "os", -1) = Unhashable
       /\ {"by_os", "by_os_reg"} \cap DOMAIN popularity_tables # {}
    \/ /\ DictGetOr(context, "device", -1) = Unhashable
       /\ {"by_dev", "by_dev_reg"} \cap DOMAIN popularity_tables # {}

ContextualPopularity_get_recommendations(context, k) ==
    IF ~loaded["ContextualPopularity"] THEN Raised("RuntimeError")
    ELSE IF lookup_raises(context) THEN Raised("TypeError")
    ELSE contextual_recommendations(context, k)

(***************************************************************************)
(* Reranker (models/reranking.py, LightGBMReranker)                        *)
(***************************************************************************)
RECURSIVE DotFrom(_, _, _)
DotFrom(vec1, vec2, i) ==
    IF i > Len(vec1) THEN 0 ELSE vec1[i] * vec2[i] + DotFrom(vec1, vec2, i + 1)

\* np.dot of two 1-D vectors; the shapes must agree
Dot(vec1, vec2) == DotFrom(vec1, vec2, 1)

\* _cosine_similarity.  The embedding vectors of the model are zero or unit
\* vectors, for which dot / (norm1 * norm2 + 1e-9) is the dot product once
\* stored in the float32 feature matrix.
cosine_similarity(vec1, vec2) ==
    IF Dot(vec1, vec1) = 0 \/ Dot(vec2, vec2) = 0 THEN 0 ELSE Dot(vec1, vec2)

\* the exception, if any, that row i of the feature matrix raises
FeatureError(user_embedding, candidates, i) ==
    IF ~NpInRange(item_embeddings, candidates[i]) THEN "IndexError"
    ELSE IF Len(NpGet(item_embeddings, candidates[i])) # Len(user_embedding) THEN "ValueError"
    ELSE ""

\* a feature matrix whose global rank counts from 0
build_features_zero_based(user_id, candidates) ==
    IF ~NpInRange(user_embeddings, user_id) THEN Raised("IndexError")
    ELSE LET user_embedding == NpGet(user_embeddings, user_id)
             bad == {i \in DOMAIN candidates :
                        FeatureError(user_embedding, candidates, i) # ""}
         IN  IF bad # {}
             THEN Raised(FeatureError(user_embedding, candidates,
                                      CHOOSE i \in bad : \A j \in bad : i <= j))
             ELSE Returned([i \in DOMAIN candidates |->
                              <<1001, 1001, 1001, 1001, i - 1,
                                cosine_similarity(user_embedding,
                                                  NpGet(item_embeddings, candidates[i]))>>])

\* _build_features: columns CF rank, ALS rank, Popularity rank, Two-Tower
\* rank, global rank, cosine similarity
build_features(user_id, candidates) ==
    IF ~NpInRange(user_embeddings, user_id) THEN Raised("IndexError")
    ELSE LET user_embedding == NpGet(user_embeddings, user_id)
             bad == {i \in DOMAIN candidates :
                        FeatureError(user_embedding, candidates, i) # ""}
         IN  IF bad # {}
             THEN Raised(FeatureError(user_embedding, candidates,
                                      CHOOSE i \in bad : \A j \in bad : i <= j))
             ELSE Returned([i \in DOMAIN candidates |->
                              <<1001, 1001, 1001, 1001, i,
                                cosine_similarity(user_embedding,
                                                  NpGet(item_embeddings, candidates[i]))>>])

\* self._model.predict(features): the booster is a fixed function of a
\* feature row (here of its global rank and its similarity), or it raises
predict(booster, features) ==
    IF booster.fails THEN Raised("LightGBMError")
    ELSE Returned([i \in DOMAIN features |->
                     booster.by_rank[((features[i][5] - 1) % Len(booster.by_rank)) + 1]
                       + booster.by_sim * features[i][6]])

\* np.argsort(scores): ascending
argsort_ascending(scores) ==
    {p \in Permutations(DOMAIN scores) :
        \A i, j \in DOMAIN scores : i < j => scores[p[i]] <= scores[p[j]]}

\* np.argsort(-scores): the default sort is not stable, so equal scores may
\* come out in any order
argsort_descending(scores) ==
    {p \in Permutations(DOMAIN scores) :
        \A i, j \in DOMAIN scores : i < j => scores[p[i]] >= scores[p[j]]}

\* the except branch of rerank returning an empty list
rerank_failure_empty(candidates) == <<>>

\* `except Exception: return candidates`
rerank_failure(candidates) == candidates

\* `scores = self._model.predict(features)` inside the try block: an
\* exception of _build_features is the outcome
score_features(features) ==
    IF features.raised # "" THEN features ELSE predict(Val(scorer), features.value)

\* the rest of the try block and the except branch, given the outcome of
\* the scoring
rerank_by_scores(candidates, scores) ==
    IF scores.raised # ""
    THEN {[raised |-> "", value |-> rerank_failure(candidates),
           failed |-> TRUE, scores |-> None]}
    ELSE {[raised |-> "",
           value |-> [i \in DOMAIN candidates |-> candidates[sorted_indices[i]]],
           failed |-> FALSE, scores |-> Some(scores.value)] :
          sorted_indices \in argsort_descending(scores.value)}

\* LightGBMReranker.rerank(user_id, candidates): the set of its outcomes.
\* `failed` tells that the except branch ran, `scores` holds the predictions.
rerank(user_id, candidates) ==
    IF ~loaded["LightGBMReranker"]
    THEN {[raised |-> "RuntimeError", value |-> <<>>, failed |-> FALSE, scores |-> None]}
    ELSE IF candidates = <<>>
    THEN {[raised |-> "", value |-> candidates, failed |-> FALSE, scores |-> None]}
    ELSE rerank_by_scores(candidates, score_features(build_features(user_id, candidates)))

(***************************************************************************)
(* Model registry (models/base.py) and service (service.py)                *)
(***************************************************************************)
\* ModelRegistry.is_ready
registry_is_ready ==
    /\ \A name \in registry.models : loaded[name]
    /\ Len(registry.candidate_generators) > 0
    /\ registry.reranker
    /\ registry.cold_start_handler

\* RecommendationService._is_cold_user
is_cold_user(user_id) ==
    IF last_clicks = None THEN TRUE
    ELSE IF ~NpInRange(Val(last_clicks), user_id) THEN TRUE      \* IndexError
    ELSE NpGet(Val(last_clicks), user_id) = -1

\* k passed on as the caller gave it
clamp_k_missing(k) == k

\* k = max(1, min(k, self.config.api.max_recommendations))
clamp_k(k) == Max(1, Min(k, max_recommendations))

\* PopularityRecommender.get_candidates(user_id, k)
Pop_get_candidates(user_id, k) ==
    IF ~loaded["Popularity"] THEN Raised("RuntimeError")
    ELSE Pop_generate_candidates(user_id, {}, k)

\* a fallback that leaves the user's recorded next click out of the list
cold_start_fallback_without_truth(gt, user_id, k, fallback_recs) ==
    IF fallback_recs.raised # "" THEN fallback_recs
    ELSE Returned([recommendations |->
                       Take(SelectSeq(fallback_recs.value,
                                      LAMBDA item : Some(item) # DictGet(gt, user_id)), k),
                   user_type |-> "cold",
                   algorithm |-> "global_popularity_fallback",
                   ground_truth |-> DictGet(gt, user_id)])

\* the except branch of _get_cold_start_recommendations, given the outcome
\* of pop_model.get_candidates(user_id, k); gt is self._ground_truth
cold_start_fallback(gt, user_id, k, fallback_recs) ==
    IF fallback_recs.raised # "" THEN fallback_recs
    ELSE Returned([recommendations |-> Take(fallback_recs.value, k),
                   user_type |-> "cold",
                   algorithm |-> "global_popularity_fallback",
                   ground_truth |-> DictGet(gt, user_id)])

\* the try/except of _get_cold_start_recommendations, given the outcome of
\* cold_start_handler.get_recommendations(context, k)
cold_start_response(gt, user_id, k, cold) ==
    IF cold.raised = ""
    THEN Returned([recommendations |-> cold.value,
                   user_type |-> "cold",
                   algorithm |-> "contextual_popularity",
                   ground_truth |-> DictGet(gt, user_id)])
    ELSE IF "Popularity" \in registry.models
    THEN cold_start_fallback(gt, user_id, k, Pop_get_candidates(user_id, k))
    ELSE Returned([recommendations |-> <<>>,
                   user_type |-> "cold",
                   algorithm |-> "none",
                   error |-> "No fallback available",
                   ground_truth |-> DictGet(gt, user_id)])

\* RecommendationService._get_cold_start_recommendations
get_cold_start_recommendations(gt, user_id, k, context) ==
    IF ~registry.cold_start_handler THEN Raised("RuntimeError")
    ELSE cold_start_response(gt, user_id, k, ContextualPopularity_get_recommendations(context, k))

\* the emptiness test left out
no_candidates_never(candidates) == FALSE

\* `if not candidates:`
no_candidates(candidates) == candidates = <<>>

\* the body of _get_warm_user_recommendations, given the candidate pool
warm_response(gt, user_id, k, candidates) ==
        IF no_candidates(candidates)
        THEN {[raised |-> "",
               value |-> [recommendations |-> <<>>,
                          user_type |-> "warm",
                          algorithm |-> "ensemble",
                          error |-> "No candidates generated",
                          ground_truth |-> DictGet(gt, user_id)],
               pool |-> candidates, reranked |-> None, rerank_failed |-> FALSE]}
        ELSE IF ~registry.reranker
        THEN {[raised |-> "",
               value |-> [recommendations |-> Take(candidates, k),
                          user_type |-> "warm",
                          algorithm |-> "ensemble_with_reranking",
                          candidate_count |-> Len(candidates),
                          ground_truth |-> DictGet(gt, user_id)],
               pool |-> candidates, reranked |-> None, rerank_failed |-> FALSE]}
        ELSE {IF final_recs.raised # ""
              THEN [raised |-> "",
                    value |-> [recommendations |-> <<>>,
                               user_type |-> "warm",
                               algorithm |-> "ensemble",
                               error |-> final_recs.raised,
                               ground_truth |-> DictGet(gt, user_id)],
                    pool |-> candidates, reranked |-> None, rerank_failed |-> FALSE]
              ELSE [raised |-> "",
                    value |-> [recommendations |-> Take(final_recs.value, k),
                               user_type |-> "warm",
                               algorithm |-> "ensemble_with_reranking",
                               candidate_count |-> Len(candidates),
                               ground_truth |-> DictGet(gt, user_id)],
                    pool |-> candidates, reranked |-> Some(final_recs.value),
                    rerank_failed |-> final_recs.failed] :
              final_recs \in rerank(user_id, candidates)}

\* RecommendationService._get_warm_user_recommendations: the set of its
\* outcomes, each with the pool it was built from and the reranker's outcome
get_warm_user_recommendations(gt, user_id, k) ==
    warm_response(gt, user_id, k, generate_candidate_pool(user_id).candidates)

\* `if self._is_cold_user(user_id): ... else: ...` of get_recommendations
route_request(gt, user_id, k, context) ==
    IF is_cold_user(user_id)
    THEN {[raised |-> out.raised, value |-> out.value, k |-> k, cold |-> TRUE,
           pool |-> <<>>, reranked |-> None, rerank_failed |-> FALSE] :
          out \in {get_cold_start_recommendations(gt, user_id, k, context)}}
    ELSE {[raised |-> out.raised, value |-> out.value, k |-> k, cold |-> FALSE,
           pool |-> out.pool, reranked |-> out.reranked,
           rerank_failed |-> out.rerank_failed] :
          out \in get_warm_user_recommendations(gt, user_id, k)}

\* RecommendationService.get_recommendations: the set of its outcomes; `k`
\* is the request size the cold-start, warm and fallback code was given
get_recommendations(gt, user_id, k_requested, context) ==
    IF ~registry_is_ready
    THEN {[raised |-> "RuntimeError", value |-> <<>>, k |-> k_requested, cold |-> FALSE,
           pool |-> <<>>, reranked |-> None, rerank_failed |-> FALSE]}
    ELSE route_request(gt, user_id, clamp_k(k_requested), context)

(***************************************************************************)
(* Artifacts the loader can find on disk.                                  *)
(***************************************************************************)
Users == 0 .. NumUsers - 1
Items == 0 .. NumItems - 1

\* the rows of a small table: every list of at most two catalogue items
SmallRows == {<<>>} \cup {<<x>> : x \in Items} \cup {<<x, y>> : x, y \in Items}
\* a popularity ranking names no item twice
SmallRankings == {s \in SmallRows : NoDuplicates(s)}

\* the row of another user or seed item: the base row with every item moved on by d
Shifted(row, d) == [i \in DOMAIN row |-> (row[i] + d) % NumItems]

\* w items o, o+1, .. taken round a cycle of p items
Wide(o, p, w) == [i \in 1 .. w |-> o + ((i - 1) % p)]

\* last_click.npy: user u last clicked item ((u + s) mod (NumItems + 1)) - 1,
\* where -1 stands for no click at all
LastClicks(s) == [i \in 1 .. NumUsers |-> ((i - 1 + s) % (NumItems + 1)) - 1]

NoArtifacts ==
    [last_click |-> <<>>, cf |-> <<>>, als |-> <<>>, tt |-> <<>>, pop |-> <<>>,
     top_lists |-> <<>>, reranker |-> [fails |-> TRUE], user_vec |-> <<>>, item_vec |-> <<>>,
     valid_clicks |-> <<>>]

\* small tables: a base row per table, moved on by one item per user or seed item
SmallPoolArtifacts ==
    {[NoArtifacts EXCEPT
        !.last_click = LastClicks(0),
        !.cf = [i \in 1 .. NumItems |-> Shifted(cf_row, i - 1)],
        !.als = [i \in 1 .. NumUsers |-> Shifted(als_row, i - 1)],
        !.tt = [i \in 1 .. NumUsers |-> Shifted(tt_row, i - 1)],
        !.pop = pop] :
     cf_row \in SmallRows, als_row \in SmallRows,
     tt_row \in SmallRows, pop \in SmallRankings}

\* full-width tables (cf_i2i_top300, als_top100, tt_top200), with and without
\* repeated items in a row and items shared between tables
WidePoolArtifacts ==
    {[NoArtifacts EXCEPT
        !.last_click = LastClicks(1),
        !.cf = [i \in 1 .. NumItems |-> Wide(0, cf_items, 300)],
        !.als = [i \in 1 .. NumUsers |-> Wide(als_from, 100, 100)],
        !.tt = [i \in 1 .. NumUsers |-> Wide(tt_from, 200, 200)],
        !.pop = Wide(pop_from, 700, 700)] :
     cf_items \in {300, 150, 1}, als_from \in {300, 250}, tt_from \in {400, 350},
     pop_from \in {600, 0}}

\* float tables in which one table holds a nan or an inf entry, first in its
\* row or after an item
FaultyRows ==
    {r \in UNION {{<<bad>>, <<0, bad>>, <<0, bad, 1>>} : bad \in {NotANumber, Infinity}} :
        Len(r) <= NumItems + 1}

FaultyPoolArtifacts ==
    {[[NoArtifacts EXCEPT
        !.last_click = LastClicks(1),
        !.cf = [i \in 1 .. NumItems |-> <<0>>],
        !.als = [i \in 1 .. NumUsers |-> <<1, 0>>],
        !.tt = [i \in 1 .. NumUsers |-> <<0, 1>>],
        !.pop = <<1, 0>>]
      EXCEPT ![which] = IF which = "pop" THEN row ELSE [i \in DOMAIN @ |-> row]] :
     which \in {"cf", "als", "tt", "pop"}, row \in FaultyRows}

\* tables with three distinct item lists: user 0 last clicked item 0, whose
\* similarity row is [1, 2, 3]; the user's ALS row is [2, 4], the Two-Tower
\* row is empty and the popularity list is [5, 6]
ScenarioPoolArtifacts ==
    {[NoArtifacts EXCEPT
        !.last_click = <<0, -1>>,
        !.cf = <<<<1, 2, 3>>>>,
        !.als = <<<<2, 4>>, <<>>>>,
        !.tt = <<tt_row, <<>>>>,
        !.pop = <<5, 6>>] :
     tt_row \in {<<>>, <<3, 2>>, <<7>>}}

\* top_lists.pkl: the segment tables hold a list for OS 1, device 0 and
\* country US, and one for another key each
SegmentTables(os, dev, os_reg, dev_reg) ==
    [by_os |-> (1 :> os) @@ (2 :> <<90>>),
     by_dev |-> (0 :> dev) @@ (1 :> <<91>>),
     by_os_reg |-> (<<1, "US">> :> os_reg) @@ (<<1, "FR">> :> <<92>>),
     by_dev_reg |-> (<<0, "US">> :> dev_reg) @@ (<<0, "FR">> :> <<93>>)]

\* a pickle without the regional tables
GlobalSegmentsOnly(t) == [by_os |-> t.by_os, by_dev |-> t.by_dev]

ColdTopLists ==
    LET full == {SegmentTables(os, dev, os_reg, dev_reg) :
                    os \in {Wide(0, 4, 4), <<0>>}, dev \in {Wide(2, 4, 4), <<0>>},
                    os_reg \in {Wide(3, 4, 4), <<0>>}, dev_reg \in {Wide(0, 4, 4), <<6>>}}
    IN  full \cup {GlobalSegmentsOnly(t) : t \in full} \cup {<<>>}

ColdArtifacts ==
    {[NoArtifacts EXCEPT !.top_lists = t, !.pop = pop] :
     t \in ColdTopLists,
     pop \in {<<>>, Wide(0, 3, 3), Wide(5, MaxK + 1, MaxK + 1), Wide(0, 150, 150)}}

Contexts ==
    {[device |-> 0, os |-> 1, country |-> "us"],
     [device |-> 9, os |-> 99, country |-> "zz"],
     [os |-> 1],
     <<>>}

\* final_twotower_*_vec.npy: zero and unit vectors of dimension 2
Vec(i) ==
    CASE i % 4 = 0 -> <<1, 0>>
      [] i % 4 = 1 -> <<0, 1>>
      [] i % 4 = 2 -> <<-1, 0>>
      [] OTHER -> <<0, 0>>

\* complete tables, an item table short of its last row, an item table of
\* another dimension, and a user table short of its last row
Embeddings(n_items) ==
    LET users == [i \in 1 .. NumUsers |-> Vec(i)]
        items == [i \in 1 .. n_items |-> Vec(i - 1)]
    IN  {[user_vec |-> users, item_vec |-> items],
         [user_vec |-> users, item_vec |-> SubSeq(items, 1, n_items - 1)],
         [user_vec |-> users, item_vec |-> [i \in 1 .. n_items |-> <<1>>]],
         [user_vec |-> SubSeq(users, 1, NumUsers - 1), item_vec |-> items]}

\* reranker.txt: a booster that raises on predict, and boosters that score
\* a row by its global rank and its similarity
Boosters ==
    {[fails |-> TRUE]} \cup
    {[fails |-> FALSE, by_rank |-> r, by_sim |-> w] :
        r \in {<<0>>, <<0, 1>>, <<1, 0>>}, w \in {0, 1}}

\* valid_clicks.parquet: the next click of user 0 alone
SomeGroundTruth == (0 :> 1)
\* another valid_clicks.parquet: a next click for both users
OtherGroundTruth == (0 :> 0) @@ (1 :> 0)
GroundTruths == {SomeGroundTruth, OtherGroundTruth}

AllSegments == SegmentTables(Wide(0, 4, 4), Wide(2, 4, 4), Wide(3, 4, 4), Wide(0, 4, 4))

\* artifacts of a whole service: small tables with every booster and every
\* embedding table, cold-start tables, and full-width tables
WarmArtifacts ==
    {[NoArtifacts EXCEPT
        !.last_click = LastClicks(s),
        !.cf = [i \in 1 .. NumItems |-> Shifted(row, i - 1)],
        !.als = [i \in 1 .. NumUsers |-> Shifted(row, i - 1)],
        !.tt = [i \in 1 .. NumUsers |-> Shifted(row, i - 1)],
        !.pop = pop,
        !.reranker = booster,
        !.user_vec = e.user_vec,
        !.item_vec = e.item_vec,
        !.valid_clicks = SomeGroundTruth] :
     s \in 0 .. NumItems, row \in SmallRows, pop \in {<<>>, <<1, 0>>},
     booster \in {b \in Boosters : b.fails \/ b.by_rank # <<1, 0>>},
     e \in Embeddings(NumItems)}

ColdServiceArtifacts ==
    {[NoArtifacts EXCEPT
        !.last_click = LastClicks(0),
        !.pop = pop,
        !.top_lists = t,
        !.valid_clicks = SomeGroundTruth] :
     pop \in {<<>>, Wide(0, 150, 150), <<0, Infinity>>}, t \in {<<>>, AllSegments}}

\* full-width tables without embedding tables, and with one-dimensional
\* embeddings for every user and every item of the tables
WideServiceArtifacts ==
    {[a EXCEPT !.reranker = [fails |-> TRUE], !.user_vec = e.user_vec, !.item_vec = e.item_vec] :
     a \in {w \in WidePoolArtifacts :
               w.pop[1] = 600 /\ Len(w.cf[1]) = 300 /\ w.als[1][1] = 300 /\ w.tt[1][1] = 400},
     e \in {[user_vec |-> <<>>, item_vec |-> <<>>],
            [user_vec |-> [i \in 1 .. NumUsers |-> <<1>>],
             item_vec |-> [i \in 1 .. 1300 |-> <<1>>]]}}

\* tables in which the similarity rows are empty, so that CF yields nothing
\* for a user who has a last click
EmptyCFArtifacts ==
    {[NoArtifacts EXCEPT
        !.last_click = LastClicks(1),
        !.cf = [i \in 1 .. NumItems |-> <<>>],
        !.als = [i \in 1 .. NumUsers |-> als_row],
        !.tt = [i \in 1 .. NumUsers |-> tt_row],
        !.pop = pop,
        !.reranker = [fails |-> FALSE, by_rank |-> <<0, 1>>, by_sim |-> 0],
        !.user_vec = [i \in 1 .. NumUsers |-> Vec(i)],
        !.item_vec = [i \in 1 .. NumItems |-> Vec(i - 1)]] :
     als_row \in {<<>>, <<1>>}, tt_row \in {<<>>, <<0, 1>>}, pop \in {<<>>, <<1, 0>>}}

ServiceArtifacts ==
    WarmArtifacts \cup ColdServiceArtifacts \cup WideServiceArtifacts \cup EmptyCFArtifacts

RerankArtifacts ==
    {[NoArtifacts EXCEPT
        !.reranker = booster, !.user_vec = e.user_vec, !.item_vec = e.item_vec] :
     booster \in Boosters, e \in Embeddings(NumItems + 1)}

\* every list of at most n items among 0 .. NumItems (the item table short
\* of its last row has no row for item NumItems)
RECURSIVE CandidateLists(_)
CandidateLists(n) ==
    IF n = 0 THEN {<<>>}
    ELSE LET shorter == CandidateLists(n - 1)
         IN  shorter \cup {Append(c, x) : c \in {t \in shorter : Len(t) = n - 1},
                                          x \in 0 .. NumItems}

(***************************************************************************)
(* RecommendationService.load_models, _load_auxiliary_data                 *)
(***************************************************************************)
load_models(a) ==
    /\ registry' = [models |-> {"ItemToItemCF", "ALS", "TwoTower", "Popularity"},
                    candidate_generators |-> <<"ItemToItemCF", "ALSRecommender",
                                               "TwoTowerRecommender",
                                               "PopularityRecommender">>,
                    reranker |-> TRUE, cold_start_handler |-> TRUE]
    /\ loaded' = [c \in Components |-> TRUE]
    /\ cf_last_clicks' = a.last_click
    /\ similarity_matrix' = a.cf
    /\ als_recommendations' = a.als
    /\ tt_recommendations' = a.tt
    /\ popularity_list' = a.pop
    /\ popularity_tables' = a.top_lists
    /\ global_fallback' = Some(a.pop)
    /\ scorer' = Some(a.reranker)
    /\ user_embeddings' = a.user_vec
    /\ item_embeddings' = a.item_vec
    /\ last_clicks' = Some(a.last_click)
    /\ ground_truth' = a.valid_clicks
    /\ call' = [op |-> "load_models"]
    /\ result' = [op |-> "load_models"]

(***************************************************************************)
(* The steps of load_models one by one: component.load(artifacts_path),    *)
(* the registry's register_* methods, and _load_auxiliary_data.            *)
(***************************************************************************)
\* the artifacts of one small deployment: user 0 has no click, user 1
\* clicked item 0
RegistryArtifact ==
    [NoArtifacts EXCEPT
        !.last_click = LastClicks(0),
        !.cf = [i \in 1 .. NumItems |-> Shifted(<<0, 1>>, i - 1)],
        !.als = [i \in 1 .. NumUsers |-> <<1>>],
        !.tt = [i \in 1 .. NumUsers |-> <<0>>],
        !.pop = <<1, 0>>,
        !.top_lists = AllSegments,
        !.reranker = [fails |-> FALSE, by_rank |-> <<0, 1>>, by_sim |-> 0],
        !.user_vec = [i \in 1 .. NumUsers |-> Vec(i)],
        !.item_vec = [i \in 1 .. NumItems |-> Vec(i - 1)],
        !.valid_clicks = SomeGroundTruth]

\* the class whose instance carries the model name
ClassOf(name) ==
    CASE name = "ItemToItemCF" -> "ItemToItemCF"
      [] name = "ALS" -> "ALSRecommender"
      [] name = "TwoTower" -> "TwoTowerRecommender"
      [] name = "Popularity" -> "PopularityRecommender"

\* ItemToItemCF.load, ALSRecommender.load, TwoTowerRecommender.load,
\* PopularityRecommender.load, LightGBMReranker.load, ContextualPopularity.load
load(component, a) ==
    /\ loaded' = [loaded EXCEPT ![component] = TRUE]
    /\ cf_last_clicks' = IF component = "ItemToItemCF" THEN a.last_click ELSE cf_last_clicks
    /\ similarity_matrix' = IF component = "ItemToItemCF" THEN a.cf ELSE similarity_matrix
    /\ als_recommendations' = IF component = "ALS" THEN a.als ELSE als_recommendations
    /\ tt_recommendations' = IF component = "TwoTower" THEN a.tt ELSE tt_recommendations
    /\ popularity_list' = IF component = "Popularity" THEN a.pop ELSE popularity_list
    /\ popularity_tables' = IF component = "ContextualPopularity" THEN a.top_lists
                            ELSE popularity_tables
    /\ global_fallback' = IF component = "ContextualPopularity" THEN Some(a.pop)
                          ELSE global_fallback
    /\ scorer' = IF component = "LightGBMReranker" THEN Some(a.reranker) ELSE scorer
    /\ user_embeddings' = IF component = "LightGBMReranker" THEN a.user_vec
                          ELSE user_embeddings
    /\ item_embeddings' = IF component = "LightGBMReranker" THEN a.item_vec
                          ELSE item_embeddings
    /\ call' = [op |-> "load", component |-> component]
    /\ result' = Returned(<<>>)
    /\ UNCHANGED <<registry, last_clicks, ground_truth>>

tables_of_components ==
    <<loaded, cf_last_clicks, similarity_matrix, als_recommendations,
      tt_recommendations, popularity_list, popularity_tables, global_fallback,
      scorer, user_embeddings, item_embeddings>>

components_unchanged == UNCHANGED tables_of_components

\* RecommendationService._load_auxiliary_data
load_auxiliary_data(a) ==
    /\ last_clicks' = Some(a.last_click)
    /\ ground_truth' = a.valid_clicks
    /\ call' = [op |-> "_load_auxiliary_data"]
    /\ result' = Returned(<<>>)
    /\ UNCHANGED registry
    /\ components_unchanged

\* ModelRegistry.register_model(model), model.name = name
register_model(name) ==
    /\ registry' = [registry EXCEPT !.models = @ \cup {name}]
    /\ call' = [op |-> "register_model", name |-> name]
    /\ result' = Returned(<<>>)
    /\ UNCHANGED <<last_clicks, ground_truth>>
    /\ components_unchanged

\* ModelRegistry.register_candidate_generator(generator)
register_candidate_generator(class) ==
    /\ registry' = [registry EXCEPT !.candidate_generators = Append(@, class)]
    /\ call' = [op |-> "register_candidate_generator", class |-> class]
    /\ result' = Returned(<<>>)
    /\ UNCHANGED <<last_clicks, ground_truth>>
    /\ components_unchanged

\* ModelRegistry.register_reranker(reranker)
register_reranker ==
    /\ registry' = [registry EXCEPT !.reranker = TRUE]
    /\ call' = [op |-> "register_reranker"]
    /\ result' = Returned(<<>>)
    /\ UNCHANGED <<last_clicks, ground_truth>>
    /\ components_unchanged

\* ModelRegistry.register_cold_start_handler(handler)
register_cold_start_handler ==
    /\ registry' = [registry EXCEPT !.cold_start_handler = TRUE]
    /\ call' = [op |-> "register_cold_start_handler"]
    /\ result' = Returned(<<>>)
    /\ UNCHANGED <<last_clicks, ground_truth>>
    /\ components_unchanged

\* ModelRegistry.is_ready(), RecommendationService.is_ready()
is_ready ==
    /\ result' = Returned(registry_is_ready)
    /\ call' = [op |-> "is_ready"]
    /\ UNCHANGED tables

(***************************************************************************)
(* Operations.                                                             *)
(***************************************************************************)
UserIds == -(NumUsers + 1) .. NumUsers

\* a builder that takes the first item off the popularity list it has read
GenerateCandidatePool_consuming(user_id) ==
    /\ LET pool == generate_candidate_pool(user_id)
       IN  result' = [candidates |-> pool.candidates, stages |-> pool.stages]
    /\ call' = [op |-> "_generate_candidate_pool", user_id |-> user_id]
    /\ popularity_list' = IF popularity_list = <<>> THEN <<>> ELSE Tail(popularity_list)
    /\ UNCHANGED <<registry, loaded, last_clicks, cf_last_clicks, similarity_matrix,
                   als_recommendations, tt_recommendations, popularity_tables,
                   global_fallback, scorer, user_embeddings, item_embeddings, ground_truth>>

\* RecommendationService._generate_candidate_pool(user_id)
GenerateCandidatePool(user_id) ==
    /\ LET pool == generate_candidate_pool(user_id)
       IN  result' = [candidates |-> pool.candidates, stages |-> pool.stages]
    /\ call' = [op |-> "_generate_candidate_pool", user_id |-> user_id]
    /\ UNCHANGED tables

\* the service object is loaded once, right after construction
Constructed == call.op = "__init__"

LoadPoolArtifacts ==
    /\ Constructed
    /\ \E a \in SmallPoolArtifacts \cup WidePoolArtifacts \cup FaultyPoolArtifacts
                  \cup ScenarioPoolArtifacts :
          load_models(a)

GeneratePool ==
    /\ call.op = "load_models"
    /\ \E user_id \in UserIds : GenerateCandidatePool(user_id)

NextPool == LoadPoolArtifacts \/ GeneratePool
SpecPool == Init /\ [][NextPool]_vars

\* ContextualPopularity.get_recommendations(context, k), called directly
ColdStartRecommend(context, k) ==
    /\ LET out == ContextualPopularity_get_recommendations(context, k)
       IN  result' = [raised |-> out.raised, value |-> out.value,
                      allocation |-> calculate_allocation(k)]
    /\ call' = [op |-> "ContextualPopularity.get_recommendations",
                context |-> context, k |-> k]
    /\ UNCHANGED tables

LoadColdArtifacts ==
    /\ Constructed
    /\ \E a \in ColdArtifacts : load_models(a)

ColdStart ==
    /\ call.op = "load_models"
    /\ \E context \in Contexts, k \in (1 .. MaxK) \cup {100, 101} :
           ColdStartRecommend(context, k)

NextCold == LoadColdArtifacts \/ ColdStart
SpecCold == Init /\ [][NextCold]_vars

\* RecommendationService.get_recommendations(user_id, k, context)
GetRecommendations(user_id, k, context) ==
    /\ \E out \in get_recommendations(ground_truth, user_id, k, context) : result' = out
    /\ call' = [op |-> "get_recommendations", user_id |-> user_id, k |-> k,
                context |-> context]
    /\ UNCHANGED tables

\* RecommendationService._is_cold_user(user_id)
IsColdUser(user_id) ==
    /\ result' = Returned(is_cold_user(user_id))
    /\ call' = [op |-> "_is_cold_user", user_id |-> user_id]
    /\ UNCHANGED tables

\* LightGBMReranker.rerank(user_id, candidates), called directly
Rerank(user_id, candidates) ==
    /\ \E out \in rerank(user_id, candidates) : result' = out
    /\ call' = [op |-> "rerank", user_id |-> user_id, candidates |-> candidates]
    /\ UNCHANGED tables

LoadServiceArtifacts ==
    /\ Constructed
    /\ \E a \in ServiceArtifacts : load_models(a)

Recommend ==
    /\ call.op = "load_models"
    /\ \E user_id \in UserIds, k \in {-1, 0, 1, 2, 1000},
          context \in {<<>>, [device |-> 0, os |-> 1, country |-> "us"],
                       [os |-> Unhashable]} :
           GetRecommendations(user_id, k, context)

CheckCold ==
    /\ call.op = "load_models"
    /\ \E user_id \in UserIds : IsColdUser(user_id)

Next == LoadServiceArtifacts \/ Recommend \/ CheckCold
Spec == Init /\ [][Next]_vars

\* the components a deployment of two generators is assembled from
RegistryModels == {"ItemToItemCF", "Popularity"}
RegistryComponents == RegistryModels \cup {"LightGBMReranker", "ContextualPopularity"}

LoadComponent == \E component \in RegistryComponents : load(component, RegistryArtifact)
LoadAuxiliaryData == load_auxiliary_data(RegistryArtifact)
RegisterModel == \E name \in RegistryModels : register_model(name)
RegisterCandidateGenerator ==
    /\ Len(registry.candidate_generators) < MaxGenerators
    /\ \E name \in RegistryModels : register_candidate_generator(ClassOf(name))
RegisterReranker == register_reranker
RegisterColdStartHandler == register_cold_start_handler
IsReady == is_ready
Serve ==
    \E user_id \in Users, context \in {<<>>, [os |-> Unhashable]} :
        GetRecommendations(user_id, NumItems, context)

NextRegistry ==
    \/ LoadComponent
    \/ LoadAuxiliaryData
    \/ RegisterModel
    \/ RegisterCandidateGenerator
    \/ RegisterReranker
    \/ RegisterColdStartHandler
    \/ IsReady
    \/ Serve
SpecRegistry == Init /\ [][NextRegistry]_vars

\* the four tables built from one base row
GeneratorArtifacts ==
    {[NoArtifacts EXCEPT
        !.last_click = LastClicks(1),
        !.cf = [i \in 1 .. NumItems |-> Shifted(row, i - 1)],
        !.als = [i \in 1 .. NumUsers |-> Shifted(row, i - 1)],
        !.tt = [i \in 1 .. NumUsers |-> Shifted(row, i)],
        !.pop = row] :
     row \in SmallRows}

GeneratorClasses ==
    {"ItemToItemCF", "ALSRecommender", "TwoTowerRecommender", "PopularityRecommender"}

\* generator.generate_candidates(user_id, seen_items, k), called directly
GenerateCandidates(class, user_id, seen_items, k) ==
    /\ \E out \in {generate_candidates(class, user_id, seen_items, k)} :
           result' = [raised |-> out.raised, value |-> out.value]
    /\ call' = [op |-> "generate_candidates", class |-> class, user_id |-> user_id,
                seen_items |-> seen_items, k |-> k]
    /\ UNCHANGED tables

LoadGeneratorArtifacts ==
    /\ Constructed
    /\ \E a \in GeneratorArtifacts \cup FaultyPoolArtifacts : load_models(a)

Generate ==
    /\ call.op = "load_models"
    /\ \E class \in GeneratorClasses, user_id \in UserIds, seen_items \in SUBSET Items,
          k \in 0 .. MaxLimit :
           GenerateCandidates(class, user_id, seen_items, k)

NextGenerators == LoadGeneratorArtifacts \/ Generate
SpecGenerators == Init /\ [][NextGenerators]_vars

(***************************************************************************)
(* Concurrent requests: each thread runs get_recommendations in the steps  *)
(* at which it reads the shared tables.  `call` holds the request of each  *)
(* thread and `result` its position and locals.                            *)
(***************************************************************************)
Threads == 1 .. NumThreads

ConcurrentArtifacts ==
    {[RegistryArtifact EXCEPT !.reranker = booster, !.top_lists = t] :
     booster \in {[fails |-> TRUE], [fails |-> FALSE, by_rank |-> <<0, 1>>, by_sim |-> 0]},
     t \in {<<>>, AllSegments}}

ConcurrentRequests ==
    {[user_id |-> user_id, k |-> NumItems, context |-> context] :
     user_id \in Users, context \in {<<>>, [os |-> Unhashable]}}

Concurrent == call.op = "concurrent"
requests == IF Concurrent THEN call.requests ELSE [t \in Threads |-> None]
progress == IF Concurrent THEN result ELSE [t \in Threads |-> [pc |-> "idle"]]

Step(t, req, position) ==
    /\ call' = [op |-> "concurrent", requests |-> [requests EXCEPT ![t] = Some(req)]]
    /\ result' = [progress EXCEPT ![t] = position]
    /\ UNCHANGED tables

\* get_recommendations up to the routing: readiness, clamping, cold test
Enter(t, req) ==
    /\ progress[t].pc = "idle"
    /\ Step(t, req,
            IF ~registry_is_ready
            THEN [pc |-> "done", out |-> Raised("RuntimeError")]
            ELSE [pc |-> IF is_cold_user(req.user_id) THEN "cold" ELSE "warm",
                  k |-> clamp_k(req.k)])

\* _get_cold_start_recommendations
ServeCold(t) ==
    /\ progress[t].pc = "cold"
    /\ \E req \in {Val(requests[t])} :
           \E out \in {get_cold_start_recommendations(ground_truth, req.user_id,
                                                      progress[t].k, req.context)} :
               Step(t, req, [pc |-> "done", out |-> out])

\* a pool step that takes the first item off the shared popularity list
BuildPool_consuming(t) ==
    /\ progress[t].pc = "warm"
    /\ \E req \in {Val(requests[t])} :
           /\ call' = [op |-> "concurrent", requests |-> [requests EXCEPT ![t] = Some(req)]]
           /\ result' = [progress EXCEPT ![t] =
                            [pc |-> "pool", k |-> progress[t].k,
                             candidates |-> generate_candidate_pool(req.user_id).candidates]]
    /\ popularity_list' = IF popularity_list = <<>> THEN <<>> ELSE Tail(popularity_list)
    /\ UNCHANGED <<registry, loaded, last_clicks, cf_last_clicks, similarity_matrix,
                   als_recommendations, tt_recommendations, popularity_tables,
                   global_fallback, scorer, user_embeddings, item_embeddings, ground_truth>>

\* `candidates = self._generate_candidate_pool(user_id)`
BuildPool(t) ==
    /\ progress[t].pc = "warm"
    /\ \E req \in {Val(requests[t])} :
           Step(t, req, [pc |-> "pool", k |-> progress[t].k,
                         candidates |-> generate_candidate_pool(req.user_id).candidates])

\* the rest of _get_warm_user_recommendations: emptiness test, rerank, result
Respond(t) ==
    /\ progress[t].pc = "pool"
    /\ \E req \in {Val(requests[t])} :
           \E out \in warm_response(ground_truth, req.user_id, progress[t].k,
                                     progress[t].candidates) :
               Step(t, req, [pc |-> "done", out |-> [raised |-> out.raised, value |-> out.value]])

LoadConcurrentArtifacts ==
    /\ Constructed
    /\ \E a \in ConcurrentArtifacts : load_models(a)

EnterRequest ==
    /\ ~Constructed
    /\ \E t \in Threads, req \in ConcurrentRequests : Enter(t, req)

NextConcurrent ==
    \/ LoadConcurrentArtifacts
    \/ EnterRequest
    \/ \E t \in Threads : ServeCold(t)
    \/ \E t \in Threads : BuildPool(t)
    \/ \E t \in Threads : Respond(t)
SpecConcurrent == Init /\ [][NextConcurrent]_vars

(***************************************************************************)
(* api.py: the module-level _service, get_service and handle_health_check. *)
(* Besides the outcome of the call,                                        *)
(* `result` holds the module state: `service` tells that _service is not   *)
(* None, `load_raised` that the load_models call of that instance raised.  *)
(***************************************************************************)
ApiCalled == call.op \in {"get_service", "handle_health_check"}
service_is_set == ApiCalled /\ result.service
load_raised == ApiCalled /\ result.load_raised

\* RecommendationService.is_ready
service_is_ready == registry_is_ready /\ last_clicks # None

\* the components load_models loads, in its order; _load_auxiliary_data
\* follows them
LoadSteps ==
    <<"ItemToItemCF", "ALS", "TwoTower", "Popularity", "LightGBMReranker",
      "ContextualPopularity">>

\* load_models on a new instance when its first n steps succeed and the
\* next one raises (no step raises when n is the number of all the steps)
load_models_until(a, n) ==
    LET done == {LoadSteps[i] : i \in 1 .. Min(n, Len(LoadSteps))}
        generators == Min(n, 4)
        auxiliary == n > Len(LoadSteps)
    IN  /\ registry' = [models |-> {LoadSteps[i] : i \in 1 .. generators},
                        candidate_generators |->
                            [i \in 1 .. generators |-> ClassOf(LoadSteps[i])],
                        reranker |-> "LightGBMReranker" \in done,
                        cold_start_handler |-> "ContextualPopularity" \in done]
        /\ loaded' = [c \in Components |-> c \in done]
        /\ cf_last_clicks' = IF "ItemToItemCF" \in done THEN a.last_click ELSE <<>>
        /\ similarity_matrix' = IF "ItemToItemCF" \in done THEN a.cf ELSE <<>>
        /\ als_recommendations' = IF "ALS" \in done THEN a.als ELSE <<>>
        /\ tt_recommendations' = IF "TwoTower" \in done THEN a.tt ELSE <<>>
        /\ popularity_list' = IF "Popularity" \in done THEN a.pop ELSE <<>>
        /\ popularity_tables' = IF "ContextualPopularity" \in done THEN a.top_lists ELSE <<>>
        /\ global_fallback' = IF "ContextualPopularity" \in done THEN Some(a.pop) ELSE None
        /\ scorer' = IF "LightGBMReranker" \in done THEN Some(a.reranker) ELSE None
        /\ user_embeddings' = IF "LightGBMReranker" \in done THEN a.user_vec ELSE <<>>
        /\ item_embeddings' = IF "LightGBMReranker" \in done THEN a.item_vec ELSE <<>>
        /\ last_clicks' = IF auxiliary THEN Some(a.last_click) ELSE None
        /\ ground_truth' = IF auxiliary THEN a.valid_clicks ELSE <<>>

\* get_service: what it does to the service instance
get_service_tables(a, n, config_loads) ==
    IF service_is_set \/ ~config_loads THEN UNCHANGED tables
    ELSE load_models_until(a, n)

\* get_service: the module state it leaves and whether it raised
get_service_outcome(n, config_loads) ==
    IF service_is_set
    THEN [service |-> TRUE, load_raised |-> load_raised, raised |-> ""]
    ELSE IF ~config_loads
    THEN [service |-> FALSE, load_raised |-> FALSE, raised |-> "Exception"]
    ELSE [service |-> TRUE, load_raised |-> n <= Len(LoadSteps),
          raised |-> IF n <= Len(LoadSteps) THEN "Exception" ELSE ""]

get_service(a, n, config_loads) ==
    /\ get_service_tables(a, n, config_loads)
    /\ call' = [op |-> "get_service"]
    /\ result' = get_service_outcome(n, config_loads)

\* handle_health_check: get_service, then the readiness of the service it
\* returned
handle_health_check(a, n, config_loads) ==
    LET got == get_service_outcome(n, config_loads)
    IN  /\ get_service_tables(a, n, config_loads)
        /\ call' = [op |-> "handle_health_check"]
        /\ result' = [service |-> got.service, load_raised |-> got.load_raised,
                      raised |-> "",
                      status_code |-> IF got.raised = "" /\ service_is_ready' THEN 200 ELSE 503,
                      status |-> IF got.raised # "" THEN "unhealthy"
                                 ELSE IF service_is_ready' THEN "healthy"
                                 ELSE "initializing"]

\* the artifacts directory of the deployment
ApiArtifacts == ConcurrentArtifacts \cup EmptyCFArtifacts \cup ColdServiceArtifacts

\* whether the configuration loads and how far load_models gets
GetService ==
    \E a \in ApiArtifacts, n \in 0 .. Len(LoadSteps) + 1, config_loads \in BOOLEAN :
        get_service(a, n, config_loads)

HandleHealthCheck ==
    \E a \in ApiArtifacts, n \in 0 .. Len(LoadSteps) + 1, config_loads \in BOOLEAN :
        handle_health_check(a, n, config_loads)

NextApi == GetService \/ HandleHealthCheck
SpecApi == Init /\ [][NextApi]_vars

LoadRerankArtifacts ==
    /\ Constructed
    /\ \E a \in RerankArtifacts : load_models(a)

RerankCandidates ==
    /\ call.op = "load_models"
    /\ \E user_id \in -1 .. NumUsers, candidates \in CandidateLists(MaxCandidates) :
           Rerank(user_id, candidates)

NextRerank == LoadRerankArtifacts \/ RerankCandidates
SpecRerank == Init /\ [][NextRerank]_vars

PoolReturned == call.op = "_generate_candidate_pool"

\* the rows the generators read for user_id (empty where the lookup fails)
RowOf(table, user_id) == IF NpInRange(table, user_id) THEN NpGet(table, user_id) ELSE <<>>
SeedOf(user_id) == IF NpInRange(cf_last_clicks, user_id) THEN NpGet(cf_last_clicks, user_id) ELSE -1
CFRowOf(user_id) == IF SeedOf(user_id) = -1 THEN <<>> ELSE RowOf(similarity_matrix, SeedOf(user_id))

(***************************************************************************)
(* C1: the pool returned by _generate_candidate_pool holds no item ID      *)
(* twice, whatever the tables hold (rows that repeat an item, items shared *)
(* between tables).                                                        *)
(***************************************************************************)
C1_PoolHasNoDuplicates == PoolReturned => NoDuplicates(result.candidates)

\* a pool built from a CF row that repeats an item and shares it with the
\* user's ALS row and the popularity list
C1_Witness ==
    /\ PoolReturned
    /\ ~NoDuplicates(CFRowOf(call.user_id))
    /\ (Range(CFRowOf(call.user_id)) \cap Range(RowOf(als_recommendations, call.user_id))
          \cap Range(popularity_list)) # {}
    /\ Len(result.candidates) >= 2

(***************************************************************************)
(* C2: the generators run in the order CF, ALS, Popularity, Two-Tower (and *)
(* Popularity again), so that in the pool every item contributed by an     *)
(* earlier stage of that order precedes every item contributed by a later  *)
(* one; the Popularity items precede the Two-Tower items.                  *)
(***************************************************************************)
ClaimedOrder == [ItemToItemCF |-> 1, ALS |-> 2, Popularity |-> 3, TwoTower |-> 4]

C2_PoolFollowsClaimedOrder ==
    PoolReturned =>
        \A a, b \in Range(result.stages) :
            (/\ ClaimedOrder[a.algo] < ClaimedOrder[b.algo]
             /\ a.first <= a.last
             /\ b.first <= b.last) => a.last < b.first

(***************************************************************************)
(* C3: the pool size never exceeds the cumulative cap of the stage that    *)
(* just ran (300 after CF, 400 after ALS, 600 after Popularity, 800 after  *)
(* Two-Tower) and is at most 1000 when the builder returns.                *)
(***************************************************************************)
ClaimedCap == [ItemToItemCF |-> 300, ALS |-> 400, Popularity |-> 600, TwoTower |-> 800]

C3_PoolWithinStageCaps ==
    PoolReturned =>
        /\ \A a \in Range(result.stages) : a.last <= ClaimedCap[a.algo]
        /\ Len(result.candidates) <= 1000

ColdReturned == call.op = "ContextualPopularity.get_recommendations" /\ result.raised = ""

\* the segment lists the context of the call selects
MatchedLists(context) ==
    LET device == DictGetOr(context, "device", -1)
        os == DictGetOr(context, "os", -1)
        country == Upper(DictGetOr(context, "country", ""))
        Lookup(name, key) ==
            IF name \in DOMAIN popularity_tables /\ key \in DOMAIN popularity_tables[name]
            THEN {popularity_tables[name][key]} ELSE {}
    IN  Lookup("by_os", os) \cup Lookup("by_dev", device)
          \cup Lookup("by_os_reg", <<os, country>>) \cup Lookup("by_dev_reg", <<device, country>>)

GlobalItems == IF global_fallback = None THEN {} ELSE Range(Val(global_fallback))
Available(context) == (UNION {Range(l) : l \in MatchedLists(context)}) \cup GlobalItems

(***************************************************************************)
(* C6: for every context and every k >= 1 the cold-start handler returns a *)
(* list without duplicate item IDs of exactly min(k, available) items,     *)
(* available being the number of distinct items of the matched segment     *)
(* lists and the global list together.                                     *)
(***************************************************************************)
C6_ExactlyMinKAvailable ==
    ColdReturned =>
        /\ NoDuplicates(result.value)
        /\ Len(result.value) = Min(call.k, Cardinality(Available(call.context)))

\* C6 as amended: for k in 1 .. 100 the list has no duplicates and at most
\* min(k, available) items, and exactly k items when the global list alone
\* holds at least k distinct items.
C6_UniqueAndFilledFromGlobal ==
    (ColdReturned /\ call.k <= 100) =>
        /\ NoDuplicates(result.value)
        /\ Len(result.value) <= Min(call.k, Cardinality(Available(call.context)))
        /\ Cardinality(GlobalItems) >= call.k => Len(result.value) = call.k

\* k = 8 with every segment matched, the segments sharing items, and the
\* global list topping the result up to 8
C6_Witness ==
    /\ ColdReturned
    /\ call.k = 8
    /\ Cardinality(MatchedLists(call.context)) >= 3
    /\ \E l, m \in MatchedLists(call.context) : l # m /\ Range(l) \cap Range(m) # {}
    /\ Len(result.value) = 8
    /\ (Range(result.value) \cap GlobalItems)
         \ (UNION {Range(l) : l \in MatchedLists(call.context)}) # {}

(***************************************************************************)
(* C7: for every k >= 1 the four cold-start quotas of _calculate_allocation *)
(* sum to exactly k.                                                       *)
(***************************************************************************)
C7_QuotasSumToK ==
    call.op = "ContextualPopularity.get_recommendations" =>
        result.allocation.os_global + result.allocation.device_global
          + result.allocation.os_regional + result.allocation.device_regional = call.k

\* k = 7, where 2k/10 and 3k/10 both round down: quotas 1, 1, 2, 3
C7_Witness ==
    /\ call.op = "ContextualPopularity.get_recommendations"
    /\ call.k = 7
    /\ result.allocation = [os_global |-> 1, device_global |-> 1,
                            os_regional |-> 2, device_regional |-> 3]

(***************************************************************************)
(* C8: when no segment table holds a list for the context keys and the     *)
(* global list has at least k distinct items, the cold-start handler       *)
(* returns exactly the first k items of the global list, in order.         *)
(***************************************************************************)
C8_FirstKOfGlobal ==
    (/\ ColdReturned
     /\ MatchedLists(call.context) = {}
     /\ Cardinality(GlobalItems) >= call.k)
        => result.value = Take(Val(global_fallback), call.k)

\* C8 as amended: the same for k <= 100, the handler's safety limit
C8_FirstKOfGlobalUpTo100 ==
    (/\ ColdReturned
     /\ MatchedLists(call.context) = {}
     /\ Cardinality(GlobalItems) >= call.k
     /\ call.k <= 100)
        => result.value = Take(Val(global_fallback), call.k)

\* populated segment tables, an unknown device, OS and country, k = 10
C8_Witness ==
    /\ ColdReturned
    /\ call.context = [device |-> 9, os |-> 99, country |-> "zz"]
    /\ DOMAIN popularity_tables = {"by_os", "by_dev", "by_os_reg", "by_dev_reg"}
    /\ call.k = 10
    /\ Len(result.value) = 10
    /\ result.value = Take(Val(global_fallback), 10)

(***************************************************************************)
(* Service requests (specification Spec)                                   *)
(***************************************************************************)
ColdChecked == call.op = "_is_cold_user"
Recommended == call.op = "get_recommendations"

\* C4: _is_cold_user(user_id) returns true exactly when user_id lies outside
\* 0 .. len(last_click)-1 (negative IDs included) or last_click[user_id] is
\* the sentinel -1, and false for every in-range user with another value.
C4_ColdIffOutOfRangeOrSentinel ==
    ColdChecked =>
        result.value = (\/ call.user_id \notin 0 .. Len(Val(last_clicks)) - 1
                        \/ Val(last_clicks)[call.user_id + 1] = -1)

\* C5: get_recommendations hands every model a k clamped to
\* 1 .. max_recommendations, whatever integer was requested, and the list it
\* returns, in a cold, fallback, warm or error result, has at most that many
\* items.
C5_ClampedBeforeAnyModel ==
    Recommended =>
        /\ result.k \in 1 .. max_recommendations
        /\ call.k \in 1 .. max_recommendations => result.k = call.k
        /\ call.k < 1 => result.k = 1
        /\ call.k > max_recommendations => result.k = max_recommendations
        /\ result.raised = "" => Len(result.value.recommendations) <= result.k

\* an oversized request on a pool of more than max_recommendations items
C5_Witness ==
    /\ Recommended
    /\ call.k = 1000
    /\ ~result.cold
    /\ Len(result.pool) > max_recommendations
    /\ Len(result.value.recommendations) = max_recommendations

\* C9: when feature building or the scorer throws, rerank returns the
\* candidates in their input order and raises nothing, and the warm response
\* carries the first k items of the pool.
C9_RerankFailureKeepsPoolOrder ==
    (Recommended /\ ~result.cold /\ result.rerank_failed) =>
        /\ result.raised = ""
        /\ result.reranked = Some(result.pool)
        /\ result.value.recommendations = Take(result.pool, result.k)
        /\ "error" \notin DOMAIN result.value

\* a working booster, an embedding lookup that fails, a pool longer than k
C9_Witness ==
    /\ Recommended
    /\ ~result.cold
    /\ result.rerank_failed
    /\ ~Val(scorer).fails
    /\ Len(result.pool) > result.k

(***************************************************************************)
(* Direct calls of the reranker (specification SpecRerank)                 *)
(***************************************************************************)
Reranked == call.op = "rerank" /\ result.raised = "" /\ ~result.failed

Count(lst, x) == Cardinality({i \in DOMAIN lst : lst[i] = x})

\* C10: when scoring succeeds, rerank returns a permutation of its input
\* (same items, same count) in non-increasing order of predicted score, and
\* an empty candidate list comes back empty.
C10_PermutationByDescendingScore ==
    Reranked =>
        IF call.candidates = <<>> THEN result.value = <<>>
        ELSE /\ Len(result.value) = Len(call.candidates)
             /\ \A x \in Range(call.candidates) \cup Range(result.value) :
                    Count(result.value, x) = Count(call.candidates, x)
             /\ \E p \in Permutations(DOMAIN call.candidates) :
                    /\ \A i \in DOMAIN p : result.value[i] = call.candidates[p[i]]
                    /\ \A i, j \in DOMAIN p :
                          i < j => Val(result.scores)[p[i]] >= Val(result.scores)[p[j]]

\* three distinct candidates that the scores put in another order
C10_Witness ==
    /\ Reranked
    /\ Len(call.candidates) = MaxCandidates
    /\ NoDuplicates(call.candidates)
    /\ result.value # call.candidates
    /\ Cardinality(Range(Val(result.scores))) > 1

(***************************************************************************)
(* Generator failures during pool assembly (specification SpecPool)        *)
(***************************************************************************)
\* the generators whose generate_candidates call raised
FailedStages == {a.algo : a \in {b \in Range(result.stages) : b.raised # ""}}

\* the builder run with the generators of `silent` returning the empty list
SilencedBody(generators, user_id, silent, st, g) ==
    RunStage(AlgoName(generators[g]), st,
             IF AlgoName(generators[g]) \in silent THEN Returned(<<>>)
             ELSE generate_candidates(generators[g], user_id, st.seen,
                                      algorithm_limits[AlgoName(generators[g])]))

SilencedPool(user_id, silent) ==
    For(LAMBDA st, g : SilencedBody(registry.candidate_generators, user_id, silent, st, g),
        Len(registry.candidate_generators),
        [candidates |-> <<>>, seen |-> {}, stages |-> <<>>, brk |-> FALSE])

StageNames(stages) == [i \in DOMAIN stages |-> stages[i].algo]

\* C11: a generator that raises during pool assembly contributes nothing
\* and the later generators still run: the pool is the one built when that
\* generator returns the empty list.
C11_FailedGeneratorCountsAsEmpty ==
    (PoolReturned /\ FailedStages # {}) =>
        /\ \A a \in Range(result.stages) : a.raised # "" => a.last < a.first
        /\ result.candidates = SilencedPool(call.user_id, FailedStages).candidates
        /\ StageNames(result.stages) = StageNames(SilencedPool(call.user_id, FailedStages).stages)

\* a generator raises OverflowError and a later generator fills the pool
C11_Witness ==
    /\ PoolReturned
    /\ \E i, j \in DOMAIN result.stages :
          /\ i < j
          /\ result.stages[i].raised = "OverflowError"
          /\ result.stages[j].first <= result.stages[j].last

(***************************************************************************)
(* Warm requests on empty generators (specification Spec)                  *)
(***************************************************************************)
WarmServed == Recommended /\ ~result.cold

\* what the Popularity generator yields: nothing when an entry of the list
\* is not a finite number, its stage being discarded as a whole
PopularityYield ==
    IF \E i \in DOMAIN popularity_list : popularity_list[i] \in {NotANumber, Infinity}
    THEN {}
    ELSE Range(popularity_list)

\* the items the ALS, Two-Tower and Popularity generators yield for user_id
OtherRowItems(user_id) ==
    Range(RowOf(als_recommendations, user_id)) \cup Range(RowOf(tt_recommendations, user_id))
        \cup PopularityYield

\* C12: a warm user whose generators all yield nothing gets an empty pool
\* and a result with no recommendations and the 'no candidates' marker, the
\* reranker is not invoked and nothing is raised; when only CF yields
\* nothing the pool is filled from the other generators.
C12_EmptyPoolIsReported ==
    (WarmServed /\ CFRowOf(call.user_id) = <<>>) =>
        IF OtherRowItems(call.user_id) = {}
        THEN /\ result.pool = <<>>
             /\ result.raised = ""
             /\ result.value.recommendations = <<>>
             /\ "error" \in DOMAIN result.value
             /\ result.value.error = "No candidates generated"
             /\ result.reranked = None
        ELSE /\ Range(result.pool) = OtherRowItems(call.user_id)
             /\ result.value.recommendations # <<>>

\* a warm user with no row anywhere
C12_Witness ==
    /\ WarmServed
    /\ CFRowOf(call.user_id) = <<>>
    /\ OtherRowItems(call.user_id) = {}
    /\ result.value.recommendations = <<>>

\* cold_start_handler.get_recommendations raised in the request just served
HandlerRaised ==
    /\ Recommended
    /\ registry_is_ready
    /\ result.cold
    /\ ContextualPopularity_get_recommendations(call.context, result.k).raised # ""

\* C13: if the cold-start handler raises, the request returns the first k
\* items of the global Popularity model labelled 'cold' and
\* 'global_popularity_fallback', or, when no Popularity model is registered,
\* an empty list with the 'No fallback available' marker; it never raises.
C13_HandlerFailureFallsBack ==
    HandlerRaised =>
        /\ result.raised = ""
        /\ result.value.user_type = "cold"
        /\ IF "Popularity" \in registry.models
           THEN /\ result.value.algorithm = "global_popularity_fallback"
                /\ result.value.recommendations = Take(popularity_list, result.k)
           ELSE /\ result.value.recommendations = <<>>
                /\ result.value.algorithm = "none"
                /\ result.value.error = "No fallback available"

\* a component the registry holds is not loaded, one of the four kinds is
\* missing, or the last-click table is not loaded
RequiredUnloaded ==
    \/ last_clicks = None
    \/ \E name \in registry.models : ~loaded[name]
    \/ registry.candidate_generators = <<>>
    \/ \E i \in DOMAIN registry.candidate_generators :
           ~loaded[AlgoName(registry.candidate_generators[i])]
    \/ ~registry.reranker
    \/ ~loaded["LightGBMReranker"]
    \/ ~registry.cold_start_handler
    \/ ~loaded["ContextualPopularity"]

\* C14: whenever a required table or model is not loaded, the last-click
\* table included, get_recommendations surfaces 'service not ready' and
\* returns no recommendation list.
C14_UnloadedMeansNotReady ==
    (Recommended /\ RequiredUnloaded) =>
        /\ result.raised = "RuntimeError"
        /\ result.value = <<>>

\* C15: after any sequence of register_* and load operations,
\* ModelRegistry.is_ready() is true only if every component is registered
\* and loaded: every registered model, every candidate generator, the
\* reranker and the cold-start handler.
C15_ReadyOnlyIfAllLoaded ==
    (call.op = "is_ready" /\ result.value = TRUE) =>
        /\ \A name \in registry.models : loaded[name]
        /\ registry.candidate_generators # <<>>
        /\ \A i \in DOMAIN registry.candidate_generators :
               loaded[AlgoName(registry.candidate_generators[i])]
        /\ registry.reranker
        /\ loaded["LightGBMReranker"]
        /\ registry.cold_start_handler
        /\ loaded["ContextualPopularity"]

\* C16: on a service whose registry reports ready, get_recommendations
\* returns a result with the fields recommendations, user_type, algorithm and
\* ground_truth for every user_id, k and context; it never raises.
C16_ReadyServiceNeverRaises ==
    (Recommended /\ registry_is_ready) =>
        /\ result.raised = ""
        /\ {"recommendations", "user_type", "algorithm", "ground_truth"}
               \subseteq DOMAIN result.value

\* a result without its ground_truth field
WithoutGroundTruth(out) ==
    [raised |-> out.raised,
     value |-> IF out.raised # "" THEN <<>>
               ELSE [f \in DOMAIN out.value \ {"ground_truth"} |-> out.value[f]]]

\* what the request can return, apart from the ground_truth field, when the
\* service holds the ground-truth mapping gt
Answers(gt, user_id, k, context) ==
    {WithoutGroundTruth(out) : out \in get_recommendations(gt, user_id, k, context)}

\* C17: the ground-truth table never influences recommendation logic: the
\* request just served, run on a state that differs only in the ground-truth
\* mapping, returns the same recommendations, user_type, algorithm and
\* candidate_count; only the ground_truth field may differ.
C17_GroundTruthHasNoInfluence ==
    Recommended =>
        \E answers \in {Answers(ground_truth, call.user_id, call.k, call.context)} :
            /\ WithoutGroundTruth(result) \in answers
            /\ \A gt \in (GroundTruths \cup {<<>>}) \ {ground_truth} :
                   Answers(gt, call.user_id, call.k, call.context) = answers

\* a warm user served a reranked list with a recorded next click attached
C17_Witness ==
    /\ Recommended
    /\ result.raised = ""
    /\ ~result.cold
    /\ result.value.ground_truth # None
    /\ result.value.recommendations # <<>>

Yielded(row) ==
    IF \E i \in DOMAIN row : row[i] \in {NotANumber, Infinity} THEN <<>> ELSE row

\* s with every later duplicate dropped
FirstOccurrences(s) ==
    LET keep == {i \in DOMAIN s : \A j \in 1 .. i - 1 : s[j] # s[i]}
    IN  [n \in 1 .. Cardinality(keep) |->
            s[CHOOSE i \in keep : Cardinality({j \in keep : j <= i}) = n]]

CFYield(user_id) == Yielded(CFRowOf(user_id))
ALSYield(user_id) == Yielded(RowOf(als_recommendations, user_id))
TTYield(user_id) == Yielded(RowOf(tt_recommendations, user_id))

\* the rows read for user_id together stay below the smallest cap, and the
\* Two-Tower row holds no item that CF and ALS have not yielded
BelowCapsWithoutTwoTower(user_id) ==
    /\ Len(CFRowOf(user_id)) + Len(RowOf(als_recommendations, user_id))
          + Len(RowOf(tt_recommendations, user_id)) + Len(popularity_list)
          < Min(max_candidates_als, final_candidate_pool)
    /\ Range(TTYield(user_id)) \subseteq Range(CFYield(user_id)) \cup Range(ALSYield(user_id))

\* C19: when the generator outputs together stay below every cap and
\* Two-Tower contributes nothing, the pool is the CF row of the user's seed
\* item, then the user's ALS row, then the Popularity list, concatenated in
\* that order with every later duplicate dropped.
C19_PoolIsConcatenationWithoutDuplicates ==
    (PoolReturned /\ BelowCapsWithoutTwoTower(call.user_id)) =>
        result.candidates =
            FirstOccurrences(CFYield(call.user_id) \o ALSYield(call.user_id)
                                \o Yielded(popularity_list))

\* CF [1, 2, 3], ALS [2, 4], Popularity [5, 6] give [1, 2, 3, 4, 5, 6]
C19_Witness ==
    /\ PoolReturned
    /\ BelowCapsWithoutTwoTower(call.user_id)
    /\ CFRowOf(call.user_id) = <<1, 2, 3>>
    /\ RowOf(als_recommendations, call.user_id) = <<2, 4>>
    /\ popularity_list = <<5, 6>>
    /\ result.candidates = <<1, 2, 3, 4, 5, 6>>

Generated == call.op = "generate_candidates"

\* the row the generator of the class reads for user_id
GeneratorRow(class, user_id) ==
    CASE class = "ItemToItemCF" -> CFRowOf(user_id)
      [] class = "ALSRecommender" -> RowOf(als_recommendations, user_id)
      [] class = "TwoTowerRecommender" -> RowOf(tt_recommendations, user_id)
      [] class = "PopularityRecommender" -> popularity_list

\* the first `limit` entries of row, in row order, that are not excluded
FirstNotExcluded(row, excluded, limit) ==
    Take(SelectSeq(row, LAMBDA item : item \notin excluded), limit)

\* the row read by the call holds finite numbers only
RowIsFinite == Yielded(GeneratorRow(call.class, call.user_id)) = GeneratorRow(call.class, call.user_id)

\* C20: for each of the four generators, generate_candidates(user_id,
\* excluded, limit) is the first `limit` entries, in row order, of the
\* generator's row that are not in `excluded`, for every exclusion set and
\* every limit >= 0.
C20_FirstLimitNotExcluded ==
    (Generated /\ RowIsFinite) =>
        /\ result.raised = ""
        /\ result.value = FirstNotExcluded(GeneratorRow(call.class, call.user_id),
                                           call.seen_items, call.k)

\* C21: the list returned by a generator's generate_candidates holds no item
\* ID twice, for every table row (rows that repeat an item included), every
\* exclusion set and every limit.
C21_GeneratedListIsUnique ==
    (Generated /\ result.raised = "") => NoDuplicates(result.value)

\* what the request of thread t returns when it runs alone on the tables
Alone(t) ==
    {[raised |-> out.raised, value |-> out.value] :
     out \in get_recommendations(ground_truth, Val(call.requests[t]).user_id,
                                 Val(call.requests[t]).k, Val(call.requests[t]).context)}

EachAnswersAsAlone ==
    Concurrent => \A t \in Threads : result[t].pc = "done" => result[t].out \in Alone(t)

UserTable(class) ==
    CASE class = "ItemToItemCF" -> cf_last_clicks
      [] class = "ALSRecommender" -> als_recommendations
      [] class = "TwoTowerRecommender" -> tt_recommendations

OutsideRange(table, index) == index \notin 0 .. Len(table) - 1

\* the call just made looked up a user, or a CF seed item, outside the range
\* 0 .. rows-1 of the table
LookupOutsideRange ==
    /\ Generated
    /\ call.class # "PopularityRecommender"
    /\ \/ OutsideRange(UserTable(call.class), call.user_id)
       \/ /\ call.class = "ItemToItemCF"
          /\ cf_last_clicks[call.user_id + 1] # -1
          /\ OutsideRange(similarity_matrix, cf_last_clicks[call.user_id + 1])

\* C23: for every generator and every user_id outside its table's index
\* range 0..rows-1 (negative IDs included), and for a CF seed item outside
\* the similarity table's range, generate_candidates returns the empty list
\* and raises nothing.
C23_OutOfRangeYieldsNothing ==
    LookupOutsideRange => result = Returned(<<>>)

ColdCalled == call.op = "ContextualPopularity.get_recommendations"

\* C24: for every k from 1 to the configured maximum the cold-start quotas
\* are floor(2k/10) for OS-global, floor(2k/10) for device-global,
\* floor(3k/10) for OS+country and k minus those three for device+country,
\* and each of the four quotas is at least 0.
C24_QuotasAreTruncatedShares ==
    (ColdCalled /\ call.k >= 1 /\ call.k <= max_recommendations) =>
        /\ result.allocation.os_global = (2 * call.k) \div 10
        /\ result.allocation.device_global = (2 * call.k) \div 10
        /\ result.allocation.os_regional = (3 * call.k) \div 10
        /\ result.allocation.device_regional =
               call.k - 2 * ((2 * call.k) \div 10) - (3 * call.k) \div 10
        /\ \A quota \in DOMAIN result.allocation : result.allocation[quota] >= 0

\* the first n items of list, in list order, that are not in seen, each
\* once
Walk(list, n, seen) ==
    LET Fresh(i) == list[i] \notin seen /\ \A j \in 1 .. i - 1 : list[j] # list[i]
        Rank(i) == Cardinality({list[j] : j \in 1 .. i} \ seen)
        kept == SelectSeq([i \in DOMAIN list |-> i], LAMBDA i : Fresh(i) /\ Rank(i) <= n)
    IN  [m \in DOMAIN kept |-> list[kept[m]]]

\* the segment list the table holds for the key, empty when there is none
SegmentList(table_name, key) ==
    IF table_name \in DOMAIN popularity_tables /\ key \in DOMAIN popularity_tables[table_name]
    THEN popularity_tables[table_name][key]
    ELSE <<>>

\* the four segment parts, each at most its quota long, followed by what
\* the global list adds to reach k
QuotaFill(device, os, country, quota, k) ==
    LET from_os == Walk(SegmentList("by_os", os), quota.os_global, {})
        from_dev == Walk(SegmentList("by_dev", device), quota.device_global, Range(from_os))
        from_os_reg == Walk(SegmentList("by_os_reg", <<os, country>>), quota.os_regional,
                            Range(from_os \o from_dev))
        from_dev_reg == Walk(SegmentList("by_dev_reg", <<device, country>>),
                             quota.device_regional,
                             Range(from_os \o from_dev \o from_os_reg))
        segments == from_os \o from_dev \o from_os_reg \o from_dev_reg
        global == IF global_fallback = None THEN <<>> ELSE Val(global_fallback)
    IN  segments \o Walk(global, k - Len(segments), Range(segments))

\* C25: in a cold-start request each segment list contributes at most its
\* own quota, whatever the shortfall of the other segments, and any
\* shortfall against k is filled only from the global list, after all four
\* quotas were attempted.
C25_QuotasAreNotRedistributed ==
    (ColdReturned /\ call.k <= max_recommendations) =>
        result.value =
            Take(QuotaFill(DictGetOr(call.context, "device", -1),
                           DictGetOr(call.context, "os", -1),
                           Upper(DictGetOr(call.context, "country", "")),
                           result.allocation, call.k), call.k)

\* k = 10: the OS list holds one item for a quota of two, the device list
\* holds 2, 3, 4, 5 for a quota of two; item 4 stays out although the OS
\* quota was short, and the global list fills the result up to k
C25_Witness ==
    /\ ColdReturned
    /\ call.k = 10
    /\ SegmentList("by_os", DictGetOr(call.context, "os", -1)) = <<0>>
    /\ SegmentList("by_dev", DictGetOr(call.context, "device", -1)) = <<2, 3, 4, 5>>
    /\ SubSeq(result.value, 1, 3) = <<0, 2, 3>>
    /\ 4 \notin Range(result.value)
    /\ Len(result.value) = 10

\* C26: the pool builder returns fewer than 1000 items only when every
\* generator is exhausted: the returned pool either has 1000 items or holds
\* every item of the Popularity list.
C26_PoolIsFullOrPopularityExhausted ==
    PoolReturned =>
        \/ Len(result.candidates) = final_candidate_pool
        \/ PopularityYield \subseteq Range(result.candidates)

(***************************************************************************)
(* C27: each stage adds at most its per-call cap of items to the pool (CF  *)
(* 300, ALS 100, Popularity 200, Two-Tower 200), also when the earlier     *)
(* stages contributed fewer items than their own caps.                     *)
(***************************************************************************)
ClaimedStageCap == [ItemToItemCF |-> 300, ALS |-> 100, Popularity |-> 200, TwoTower |-> 200]

StageContribution(a) == a.last - a.first + 1

C27_StageAddsAtMostItsCap ==
    PoolReturned =>
        \A a \in Range(result.stages) : StageContribution(a) <= ClaimedStageCap[a.algo]

(***************************************************************************)
(* C28: in every feature matrix the service passes to the scorer, the four *)
(* per-algorithm rank columns hold 1001 for every candidate, and the       *)
(* global-rank column holds the candidate's 1-based position in the pool,  *)
(* which is below 1001.                                                    *)
(***************************************************************************)
\* the warm request of the state reached the reranker with a pool
PoolReachedReranker ==
    /\ call.op = "get_recommendations"
    /\ result.raised = ""
    /\ ~result.cold
    /\ result.pool # <<>>
    /\ registry.reranker
    /\ loaded["LightGBMReranker"]

\* the feature matrices handed to self._model.predict for that request
ScoredFeatures ==
    {f.value : f \in {g \in {build_features(call.user_id, result.pool)} : g.raised = ""}}

WarmPoolReturned ==
    /\ PoolReturned
    /\ call.user_id \in Users
    /\ ~is_cold_user(call.user_id)

C29_PoolEqualsDeployedPool ==
    (WarmPoolReturned /\ get_candidates(call.user_id).raised = "") =>
        result.candidates = get_candidates(call.user_id).value

(***************************************************************************)
(* C30: in any sequence of get_service calls, a call never returns a       *)
(* service whose load_models raised: after a failed initialization the     *)
(* module-level service is still unset, so that the next call attempts the *)
(* load again.                                                             *)
(***************************************************************************)
C30_FailedServiceIsNeverReturned ==
    call.op = "get_service" =>
        /\ result.raised = "" => ~result.load_raised
        /\ result.raised # "" => ~result.service

====
